---------------------------- MODULE Spec2Model ----------------------------
(***************************************************************************)
(* liquid-dsp packetizer (src/framing/src/packetizer.c): a CRC plus a      *)
(* two-stage FEC + interleaver pipeline behind one encode/decode object.   *)
(*                                                                         *)
(* The CRC, FEC and interleaver modules are separate translation units of  *)
(* the library; they are modelled here by small concrete schemes that      *)
(* follow the interface the packetizer uses (lengths, encode, decode).     *)
(* All lengths stay far below 2^32, so unsigned arithmetic never wraps.    *)
(***************************************************************************)
EXTENDS Integers, Sequences, FiniteSets, TLC

VARIABLES
    p,          \* the caller's handle: NULL or the address of a packetizer_s
    pk,         \* the fields of *p (struct packetizer_s and its plan array)
    heap,       \* the allocator's blocks, indexed by address
    chan,       \* the packet in flight between encode and decode
    io,         \* the most recent call on the packetizer and what it returned
    proc,       \* "running", or "terminated" once the process has died
    len_in,     \* arguments of the running packetizer_compute_dec_msg_len
    n_hat,      \* its local n_hat
    k_hat,      \* its local k_hat
    len_pc,     \* its position: "while" or "done"
    len_ret,    \* its return value once len_pc = "done"
    objs,       \* the packetizer objects that concurrent callers share
    thr         \* per thread: the call it is in, its position and its locals

pkt_vars  == <<p, pk, heap, chan, io, proc>>
len_vars  == <<len_in, n_hat, k_hat, len_pc, len_ret>>
conc_vars == <<objs, thr>>
vars      == <<p, pk, heap, chan, io, proc, len_in, n_hat, k_hat, len_pc, len_ret,
               objs, thr>>

----------------------------------------------------------------------------
(* Bounds of the model *)

MaxMsgLen  == 2     \* largest message length passed to create / recreate
MaxK       == 25    \* largest target length passed to the inverse search

NULL == 0

\* payload byte values the caller draws from (all-zero and all-ones included)
PayloadBytes == {0, 255}

\* values malloc'ed memory may hold before it is first written
JunkBytes == {170}

\* the schemes the caller configures packetizers with
CallerCrcSchemes == {"CRC_NONE", "CRC_16"}
CallerFecSchemes == {"FEC_NONE", "FEC_REP2", "FEC_BLOCK23"}

----------------------------------------------------------------------------
(* Sequence helpers *)

Min(a, b) == IF a < b THEN a ELSE b

Take(s, n) == SubSeq(s, 1, Min(n, Len(s)))

Drop(s, n) == SubSeq(s, n + 1, Len(s))

RECURSIVE SeqSum(_)
SeqSum(s) == IF s = <<>> THEN 0 ELSE s[1] + SeqSum(Tail(s))

RECURSIVE WeightedSum(_, _)
WeightedSum(s, i) ==
    IF s = <<>> THEN 0 ELSE (2 * i + 1) * s[1] + WeightedSum(Tail(s), i + 1)

\* all byte sequences of length n over the alphabet A
SeqsOfLen(A, n) == [1..n -> A]

\* memory write: the first Len(data) bytes of buf are replaced, the rest kept
MemWrite(buf, data) ==
    [i \in 1..Len(buf) |-> IF i <= Len(data) THEN data[i] ELSE buf[i]]

\* memory write of data at byte offset off (0-based) of buf
MemWriteAt(buf, off, data) ==
    [i \in 1..Len(buf) |->
        IF i > off /\ i <= off + Len(data) THEN data[i - off] ELSE buf[i]]

----------------------------------------------------------------------------
(* Error-detection schemes (crc module) *)

CrcSchemes == {"CRC_NONE", "CRC_CHECKSUM", "CRC_16"}

crc_get_length(crc) ==
    CASE crc = "CRC_NONE"     -> 0
      [] crc = "CRC_CHECKSUM" -> 1
      [] crc = "CRC_16"       -> 2

crc_generate_key(crc, msg) ==
    CASE crc = "CRC_NONE"     -> 0
      [] crc = "CRC_CHECKSUM" -> (SeqSum(msg) + 1) % 256
      [] crc = "CRC_16"       -> (7439 + 31 * WeightedSum(msg, 1)) % 65536

crc_validate_message(crc, msg, key) == crc_generate_key(crc, msg) = key

----------------------------------------------------------------------------
(* Forward error-correction schemes (fec module) *)

FecSchemes == {"FEC_NONE", "FEC_REP2", "FEC_TAIL4", "FEC_BLOCK23"}

\* FEC_NONE    : len        (pass-through)
\* FEC_REP2    : len*2      (the message, twice)
\* FEC_TAIL4   : len+4      (the message and four tail bytes)
\* FEC_BLOCK23 : 3*ceil(len/2)  (each pair of bytes gets a parity byte)
fec_get_enc_msg_length(fs, n) ==
    CASE fs = "FEC_NONE"    -> n
      [] fs = "FEC_REP2"    -> n * 2
      [] fs = "FEC_TAIL4"   -> n + 4
      [] fs = "FEC_BLOCK23" -> 3 * ((n + 1) \div 2)

RECURSIVE Block23Enc(_)
Block23Enc(m) ==
    IF m = <<>> THEN <<>>
    ELSE IF Len(m) = 1 THEN <<m[1], 0, m[1]>>
    ELSE <<m[1], m[2], (m[1] + m[2]) % 256>> \o Block23Enc(Drop(m, 2))

RECURSIVE Block23Dec(_)
Block23Dec(c) ==
    IF Len(c) < 3 THEN <<>>
    ELSE <<c[1], c[2]>> \o Block23Dec(Drop(c, 3))

\* the codeword of the dec_msg_len-byte message m
FecEncodeWord(fs, m) ==
    CASE fs = "FEC_NONE"    -> m
      [] fs = "FEC_REP2"    -> m \o m
      [] fs = "FEC_TAIL4"   -> m \o << SeqSum(m) % 256, Len(m) % 256, 90, 165 >>
      [] fs = "FEC_BLOCK23" -> Block23Enc(m)

\* the dec_msg_len-byte message recovered from the codeword c
FecDecodeWord(fs, dec_msg_len, c) ==
    CASE fs = "FEC_NONE"    -> Take(c, dec_msg_len)
      [] fs = "FEC_REP2"    -> Take(c, dec_msg_len)
      [] fs = "FEC_TAIL4"   -> Take(c, dec_msg_len)
      [] fs = "FEC_BLOCK23" -> Take(Block23Dec(c), dec_msg_len)

\* fec_encode(f, dec_msg_len, msg_dec, msg_enc): reads dec_msg_len bytes of
\* msg_dec, writes the codeword to the front of msg_enc; returns msg_enc
fec_encode(f, dec_msg_len, msg_dec, msg_enc) ==
    MemWrite(msg_enc, FecEncodeWord(f.scheme, Take(msg_dec, dec_msg_len)))

\* fec_decode(f, dec_msg_len, msg_enc, msg_dec): reads the codeword at the
\* front of msg_enc, writes dec_msg_len bytes to msg_dec; returns msg_dec
fec_decode(f, dec_msg_len, msg_enc, msg_dec) ==
    MemWrite(msg_dec,
             FecDecodeWord(f.scheme, dec_msg_len,
                           Take(msg_enc, fec_get_enc_msg_length(f.scheme, dec_msg_len))))

----------------------------------------------------------------------------
(* Interleaver (interleaver module): a length-preserving permutation *)

LIQUID_INTERLEAVER_BLOCK == "block"

\* forward permutation of an n-byte block: rotate left by one
Permute(s) ==
    [i \in 1..Len(s) |-> s[(i % Len(s)) + 1]]

\* inverse permutation: rotate right by one
Unpermute(s) ==
    [i \in 1..Len(s) |-> s[((i + Len(s) - 2) % Len(s)) + 1]]

\* interleaver_encode(q, msg_dec, msg_enc): permutes the q.len leading bytes
interleaver_encode(q, msg_dec, msg_enc) ==
    MemWrite(msg_enc, Permute(Take(msg_dec, q.len)))

\* interleaver_decode(q, msg_enc, msg_dec): the inverse permutation
interleaver_decode(q, msg_enc, msg_dec) ==
    MemWrite(msg_dec, Unpermute(Take(msg_enc, q.len)))

----------------------------------------------------------------------------
(* Length calculator *)

packetizer_compute_enc_msg_len(n, crc, fec0, fec1) ==
    LET k  == n + crc_get_length(crc)
        n0 == fec_get_enc_msg_length(fec0, k)
        n1 == fec_get_enc_msg_length(fec1, n0)
    IN  n1

LenArgs == [k : 0..MaxK, crc : CrcSchemes, fec0 : FecSchemes, fec1 : FecSchemes]

\* forward length of the candidate n under the running search's schemes
EncLen(n) == packetizer_compute_enc_msg_len(n, len_in.crc, len_in.fec0, len_in.fec1)

\* DecLenLoop without the "n_hat++" of the last branch
DecLenLoop_NoIncrement ==
    /\ len_pc = "while"
    /\ k_hat < len_in.k
    /\ LET kh == EncLen(n_hat) IN
        /\ k_hat' = kh
        /\ IF kh >= len_in.k
             THEN /\ len_ret' = n_hat /\ len_pc' = "done" /\ n_hat' = n_hat
             ELSE UNCHANGED <<n_hat, len_ret, len_pc>>
    /\ UNCHANGED <<len_in, pkt_vars, conc_vars>>

\* DecLenLoop with the candidate incremented before it is compared
DecLenLoop_IncFirst ==
    /\ len_pc = "while"
    /\ k_hat < len_in.k
    /\ LET kh == EncLen(n_hat) IN
        /\ k_hat' = kh
        /\ n_hat' = n_hat + 1
        /\ IF kh >= len_in.k
             THEN /\ len_ret' = n_hat + 1 /\ len_pc' = "done"
             ELSE UNCHANGED <<len_ret, len_pc>>
    /\ UNCHANGED <<len_in, pkt_vars, conc_vars>>

\* DecLenLoop returning the prior candidate, n_hat - 1, when it overshoots
DecLenLoop_ReturnPrior ==
    /\ len_pc = "while"
    /\ k_hat < len_in.k
    /\ LET kh == EncLen(n_hat) IN
        /\ k_hat' = kh
        /\ IF kh = len_in.k
             THEN /\ len_ret' = n_hat /\ len_pc' = "done" /\ n_hat' = n_hat
             ELSE IF kh > len_in.k
               THEN /\ len_ret' = n_hat - 1 /\ len_pc' = "done" /\ n_hat' = n_hat
               ELSE /\ n_hat' = n_hat + 1 /\ UNCHANGED <<len_ret, len_pc>>
    /\ UNCHANGED <<len_in, pkt_vars, conc_vars>>

\* one pass through the body of the while loop of
\* packetizer_compute_dec_msg_len (the loop condition holds)
DecLenLoop ==
    /\ len_pc = "while"
    /\ k_hat < len_in.k
    /\ LET kh == EncLen(n_hat) IN
        /\ k_hat' = kh
        /\ IF kh = len_in.k
             THEN /\ len_ret' = n_hat /\ len_pc' = "done" /\ n_hat' = n_hat
             ELSE IF kh > len_in.k
               THEN /\ len_ret' = n_hat /\ len_pc' = "done" /\ n_hat' = n_hat
               ELSE /\ n_hat' = n_hat + 1 /\ UNCHANGED <<len_ret, len_pc>>
    /\ UNCHANGED <<len_in, pkt_vars, conc_vars>>

\* the loop condition fails: fall through to "return 0"
DecLenExit ==
    /\ len_pc = "while"
    /\ ~(k_hat < len_in.k)
    /\ len_ret' = 0
    /\ len_pc' = "done"
    /\ UNCHANGED <<len_in, n_hat, k_hat, pkt_vars, conc_vars>>

----------------------------------------------------------------------------
(* Heap: heap[a] is the block at address a; frees counts how often the      *)
(* allocation it holds has been released (1: the block is free for reuse)  *)

HeapObj(kind, scheme, len, data) ==
    [kind |-> kind, frees |-> 0, scheme |-> scheme, len |-> len, data |-> data]

\* the blocks of h that were released once and can be handed out again
FreeBlocks(h) == {a \in 1..Len(h) : h[a].frees = 1}

\* malloc: the lowest free block or else a new one, or NULL when the
\* allocation cannot be satisfied
Malloc(h, fail, obj) ==
    IF fail THEN [heap |-> h, addr |-> NULL]
    ELSE IF FreeBlocks(h) # {}
      THEN LET a == CHOOSE x \in FreeBlocks(h) : \A y \in FreeBlocks(h) : x <= y
           IN  [heap |-> [h EXCEPT ![a] = obj], addr |-> a]
    ELSE [heap |-> Append(h, obj), addr |-> Len(h) + 1]

\* free(a): free(NULL) does nothing; a released block keeps no contents
Free(h, a) ==
    IF a = NULL THEN h
    ELSE [h EXCEPT ![a] = [kind |-> @.kind, frees |-> @.frees + 1,
                           scheme |-> "", len |-> 0, data |-> <<>>]]

\* fec_create(fs, NULL): a codec object for scheme fs
fec_create(h, fs) == Malloc(h, FALSE, HeapObj("fec", fs, 0, <<>>))

\* interleaver_create(n, scheme): an interleaver for blocks of n bytes
interleaver_create(h, n, scheme) ==
    Malloc(h, FALSE, HeapObj("interleaver", scheme, n, <<>>))

fec_destroy(h, f) == Free(h, f)

interleaver_destroy(h, q) == Free(h, q)

\* the value of pk while no packetizer is constructed
NoPk == [msg_len |-> 0, packet_len |-> 0, check |-> "CRC_NONE", crc_length |-> 0,
         buffer_len |-> 0, buffer_0 |-> NULL, buffer_1 |-> NULL,
         plan_len |-> 0, plan |-> NULL, stages |-> <<>>]

----------------------------------------------------------------------------
(* packetizer_create *)

\* CreatePlanLoop without the update "n0 = p->plan[i].enc_msg_len"
RECURSIVE CreatePlanLoop_NoUpdate(_, _, _, _, _, _)
CreatePlanLoop_NoUpdate(i, plan_len, n0, fec0, fec1, st) ==
    IF i >= plan_len THEN st
    ELSE LET fs          == IF i = 0 THEN fec0 ELSE fec1
             dec_msg_len == n0
             enc_msg_len == fec_get_enc_msg_length(fs, dec_msg_len)
             mf          == fec_create(st.heap, fs)
             mq          == interleaver_create(mf.heap, enc_msg_len,
                                               LIQUID_INTERLEAVER_BLOCK)
             entry       == [fs |-> fs, intlv_scheme |-> LIQUID_INTERLEAVER_BLOCK,
                             dec_msg_len |-> dec_msg_len,
                             enc_msg_len |-> enc_msg_len,
                             f |-> mf.addr, q |-> mq.addr]
         IN  CreatePlanLoop_NoUpdate(i + 1, plan_len, n0, fec0, fec1,
                            [heap |-> mq.heap, stages |-> Append(st.stages, entry)])

\* the loop "for (i=0; i<plan_len; i++)" of packetizer_create, from stage i on:
\* st.heap is the heap, st.stages the plan entries built so far
RECURSIVE CreatePlanLoop(_, _, _, _, _, _)
CreatePlanLoop(i, plan_len, n0, fec0, fec1, st) ==
    IF i >= plan_len THEN st
    ELSE LET fs          == IF i = 0 THEN fec0 ELSE fec1
             dec_msg_len == n0
             enc_msg_len == fec_get_enc_msg_length(fs, dec_msg_len)
             mf          == fec_create(st.heap, fs)
             mq          == interleaver_create(mf.heap, enc_msg_len,
                                               LIQUID_INTERLEAVER_BLOCK)
             entry       == [fs |-> fs, intlv_scheme |-> LIQUID_INTERLEAVER_BLOCK,
                             dec_msg_len |-> dec_msg_len,
                             enc_msg_len |-> enc_msg_len,
                             f |-> mf.addr, q |-> mq.addr]
         IN  CreatePlanLoop(i + 1, plan_len, enc_msg_len, fec0, fec1,
                            [heap |-> mq.heap, stages |-> Append(st.stages, entry)])

\* packetizer_create with the scratch buffers sized for the uncoded message
\* and its key: p->buffer_len = _n + p->crc_length
packetizer_create_UncodedBuffers(h, n, crc, fec0, fec1, nomem, junk) ==
    LET mp         == Malloc(h, "p" \in nomem, HeapObj("packetizer", "", 0, <<>>))
        packet_len == packetizer_compute_enc_msg_len(n, crc, fec0, fec1)
        crc_length == crc_get_length(crc)
        buffer_len == n + crc_length
        m0         == Malloc(mp.heap, "buffer_0" \in nomem,
                             HeapObj("buffer", "", buffer_len,
                                     [i \in 1..buffer_len |-> junk]))
        m1         == Malloc(m0.heap, "buffer_1" \in nomem,
                             HeapObj("buffer", "", buffer_len,
                                     [i \in 1..buffer_len |-> junk]))
        plan_len   == 2
        mplan      == Malloc(m1.heap, "plan" \in nomem,
                             HeapObj("plan", "", plan_len, <<>>))
        built      == CreatePlanLoop(0, plan_len, n + crc_length, fec0, fec1,
                                     [heap |-> mplan.heap, stages |-> <<>>])
    IN  IF mp.addr = NULL
          THEN [p |-> NULL, pk |-> NoPk, heap |-> mp.heap, died |-> TRUE,
                made |-> FALSE]
        ELSE IF mplan.addr = NULL
          THEN [p |-> NULL, pk |-> NoPk, heap |-> mplan.heap, died |-> TRUE,
                made |-> FALSE]
        ELSE [p    |-> mp.addr,
              pk   |-> [msg_len |-> n, packet_len |-> packet_len, check |-> crc,
                        crc_length |-> crc_length, buffer_len |-> buffer_len,
                        buffer_0 |-> m0.addr, buffer_1 |-> m1.addr,
                        plan_len |-> plan_len, plan |-> mplan.addr,
                        stages |-> built.stages],
              heap |-> built.heap,
              died |-> FALSE,
              made |-> TRUE]

\* packetizer_create(_n, _crc, _fec0, _fec1) on heap h.  nomem names the
\* malloc calls that return NULL; junk is what fresh buffer memory holds.
\* Result: the handle, the fields of the object, the heap, whether the call
\* dereferenced a null pointer (p or p->plan) and killed the process, and
\* whether an object was constructed.
packetizer_create(h, n, crc, fec0, fec1, nomem, junk) ==
    LET mp         == Malloc(h, "p" \in nomem, HeapObj("packetizer", "", 0, <<>>))
        packet_len == packetizer_compute_enc_msg_len(n, crc, fec0, fec1)
        crc_length == crc_get_length(crc)
        buffer_len == packet_len
        m0         == Malloc(mp.heap, "buffer_0" \in nomem,
                             HeapObj("buffer", "", buffer_len,
                                     [i \in 1..buffer_len |-> junk]))
        m1         == Malloc(m0.heap, "buffer_1" \in nomem,
                             HeapObj("buffer", "", buffer_len,
                                     [i \in 1..buffer_len |-> junk]))
        plan_len   == 2
        mplan      == Malloc(m1.heap, "plan" \in nomem,
                             HeapObj("plan", "", plan_len, <<>>))
        built      == CreatePlanLoop(0, plan_len, n + crc_length, fec0, fec1,
                                     [heap |-> mplan.heap, stages |-> <<>>])
    IN  IF mp.addr = NULL
          THEN [p |-> NULL, pk |-> NoPk, heap |-> mp.heap, died |-> TRUE,
                made |-> FALSE]
        ELSE IF mplan.addr = NULL
          THEN [p |-> NULL, pk |-> NoPk, heap |-> mplan.heap, died |-> TRUE,
                made |-> FALSE]
        ELSE [p    |-> mp.addr,
              pk   |-> [msg_len |-> n, packet_len |-> packet_len, check |-> crc,
                        crc_length |-> crc_length, buffer_len |-> buffer_len,
                        buffer_0 |-> m0.addr, buffer_1 |-> m1.addr,
                        plan_len |-> plan_len, plan |-> mplan.addr,
                        stages |-> built.stages],
              heap |-> built.heap,
              died |-> FALSE,
              made |-> TRUE]

----------------------------------------------------------------------------
(* packetizer_destroy *)

\* DestroyPlanLoop without the call interleaver_destroy(_p->plan[i].q)
RECURSIVE DestroyPlanLoop_LeakQ(_, _, _)
DestroyPlanLoop_LeakQ(i, o, h) ==
    IF i >= o.plan_len THEN h
    ELSE DestroyPlanLoop_LeakQ(i + 1, o, fec_destroy(h, o.stages[i + 1].f))

RECURSIVE DestroyPlanLoop(_, _, _)
DestroyPlanLoop(i, o, h) ==
    IF i >= o.plan_len THEN h
    ELSE DestroyPlanLoop(i + 1, o,
            interleaver_destroy(fec_destroy(h, o.stages[i + 1].f),
                                o.stages[i + 1].q))

\* packetizer_destroy(_p): the heap after the call
packetizer_destroy(h, ptr, o) ==
    LET h1 == DestroyPlanLoop(0, o, h)
        h2 == Free(h1, o.plan)
        h3 == Free(h2, o.buffer_0)
        h4 == Free(h3, o.buffer_1)
    IN  Free(h4, ptr)

----------------------------------------------------------------------------
(* packetizer_recreate *)

\* SameConfig comparing plan[0].fs with _fec1
SameConfig_WrongFec(o, n, crc, fec0, fec1) ==
    /\ o.msg_len = n
    /\ o.check = crc
    /\ o.stages[1].fs = fec1
    /\ o.stages[2].fs = fec1

\* the test "no change" of packetizer_recreate
SameConfig(o, n, crc, fec0, fec1) ==
    /\ o.msg_len = n
    /\ o.check = crc
    /\ o.stages[1].fs = fec0
    /\ o.stages[2].fs = fec1

packetizer_recreate(h, ptr, o, n, crc, fec0, fec1, nomem, junk) ==
    IF ptr = NULL
      THEN packetizer_create(h, n, crc, fec0, fec1, nomem, junk)
    ELSE IF SameConfig(o, n, crc, fec0, fec1)
      THEN [p |-> ptr, pk |-> o, heap |-> h, died |-> FALSE, made |-> FALSE]
    ELSE packetizer_create(packetizer_destroy(h, ptr, o),
                           n, crc, fec0, fec1, nomem, junk)

----------------------------------------------------------------------------
(* packetizer_encode *)

\* EncodeKeyLoop writing the key low byte first: buffer_0[msg_len+i] = key & 0xff
RECURSIVE EncodeKeyLoop_LittleEndian(_, _, _, _)
EncodeKeyLoop_LittleEndian(i, o, key, b0) ==
    IF i >= o.crc_length THEN b0
    ELSE EncodeKeyLoop_LittleEndian(i + 1, o, key \div 256,
            MemWriteAt(b0, o.msg_len + i, <<key % 256>>))

\* the loop that appends the key: buffer_0[msg_len+crc_length-i-1] = key & 0xff
RECURSIVE EncodeKeyLoop(_, _, _, _)
EncodeKeyLoop(i, o, key, b0) ==
    IF i >= o.crc_length THEN b0
    ELSE EncodeKeyLoop(i + 1, o, key \div 256,
            MemWriteAt(b0, o.msg_len + o.crc_length - i - 1, <<key % 256>>))

\* the loop over the plan: fec_encode buffer_0 > buffer_1, then
\* interleaver_encode buffer_1 > buffer_0; b = <<buffer_0, buffer_1>>
RECURSIVE EncodePlanLoop(_, _, _, _)
EncodePlanLoop(i, o, h, b) ==
    IF i >= o.plan_len THEN b
    ELSE LET st == o.stages[i + 1]
             b1 == fec_encode(h[st.f], st.dec_msg_len, b[1], b[2])
             b0 == interleaver_encode(h[st.q], b1, b[1])
         IN  EncodePlanLoop(i + 1, o, h, <<b0, b1>>)

\* packetizer_encode(_p, _msg, _pkt): the scratch buffers after the call and
\* the packet_len bytes written to _pkt
packetizer_encode(o, h, msg) ==
    LET c0  == MemWrite(h[o.buffer_0].data, Take(msg, o.msg_len))
        key == crc_generate_key(o.check, Take(c0, o.msg_len))
        c1  == EncodeKeyLoop(0, o, key, c0)
        b   == EncodePlanLoop(0, o, h, <<c1, h[o.buffer_1].data>>)
    IN  [buffer_0 |-> b[1], buffer_1 |-> b[2], pkt |-> Take(b[1], o.packet_len)]

----------------------------------------------------------------------------
(* packetizer_decode *)

\* DecodePlanLoop running the FEC decoder before the de-interleaver
RECURSIVE DecodePlanLoop_FecFirst(_, _, _, _)
DecodePlanLoop_FecFirst(i, o, h, b) ==
    IF ~(i > 0) THEN b
    ELSE LET st == o.stages[i]
             b1 == fec_decode(h[st.f], st.dec_msg_len, b[1], b[2])
             b0 == interleaver_decode(h[st.q], b1, b[1])
         IN  DecodePlanLoop_FecFirst(i - 1, o, h, <<b0, b1>>)

\* the loop over the plan, i = plan_len down to 1: interleaver_decode
\* buffer_0 > buffer_1, then fec_decode buffer_1 > buffer_0
RECURSIVE DecodePlanLoop(_, _, _, _)
DecodePlanLoop(i, o, h, b) ==
    IF ~(i > 0) THEN b
    ELSE LET st == o.stages[i]
             b1 == interleaver_decode(h[st.q], b[1], b[2])
             b0 == fec_decode(h[st.f], st.dec_msg_len, b1, b[1])
         IN  DecodePlanLoop(i - 1, o, h, <<b0, b1>>)

\* the loop that strips the key: key <<= 8; key |= buffer_0[msg_len+i]
RECURSIVE DecodeKeyLoop(_, _, _, _)
DecodeKeyLoop(i, o, key, b0) ==
    IF i >= o.crc_length THEN key
    ELSE DecodeKeyLoop(i + 1, o, key * 256 + b0[o.msg_len + i + 1], b0)

\* the extents (in bytes from the start of a scratch buffer) that the
\* statements of packetizer_encode read or write
EncodeExtents(o, h) ==
    {o.msg_len}                                                    \* memmove in, crc
    \cup {o.msg_len + o.crc_length - i : i \in 0..(o.crc_length - 1)}  \* key bytes
    \cup UNION {{o.stages[i].dec_msg_len,                          \* fec_encode in
                 fec_get_enc_msg_length(h[o.stages[i].f].scheme,
                                        o.stages[i].dec_msg_len),  \* fec_encode out
                 h[o.stages[i].q].len}                             \* interleaver
                : i \in 1..o.plan_len}
    \cup {o.packet_len}                                            \* memmove out

\* packetizer_decode leaving _msg untouched (here: zeroed) when the check fails
packetizer_decode_NoCopyOnFail(o, h, pkt) ==
    LET c0  == MemWrite(h[o.buffer_0].data, Take(pkt, o.packet_len))
        b   == DecodePlanLoop(o.plan_len, o, h, <<c0, h[o.buffer_1].data>>)
        key == DecodeKeyLoop(0, o, 0, b[1])
        ok  == crc_validate_message(o.check, Take(b[1], o.msg_len), key)
    IN  [buffer_0 |-> b[1], buffer_1 |-> b[2],
         msg   |-> IF ok THEN Take(b[1], o.msg_len) ELSE [i \in 1..o.msg_len |-> 0],
         valid |-> ok]

\* packetizer_decode(_p, _pkt, _msg): the scratch buffers after the call, the
\* msg_len bytes written to _msg and the returned validity
packetizer_decode(o, h, pkt) ==
    LET c0  == MemWrite(h[o.buffer_0].data, Take(pkt, o.packet_len))
        b   == DecodePlanLoop(o.plan_len, o, h, <<c0, h[o.buffer_1].data>>)
        key == DecodeKeyLoop(0, o, 0, b[1])
    IN  [buffer_0 |-> b[1], buffer_1 |-> b[2],
         msg   |-> Take(b[1], o.msg_len),
         valid |-> crc_validate_message(o.check, Take(b[1], o.msg_len), key)]

\* the extents that the statements of packetizer_decode read or write
DecodeExtents(o, h) ==
    {o.packet_len}                                                 \* memmove in
    \cup UNION {{h[o.stages[i].q].len,                             \* interleaver
                 fec_get_enc_msg_length(h[o.stages[i].f].scheme,
                                        o.stages[i].dec_msg_len),  \* fec_decode in
                 o.stages[i].dec_msg_len}                          \* fec_decode out
                : i \in 1..o.plan_len}
    \cup {o.msg_len + i + 1 : i \in 0..(o.crc_length - 1)}         \* key bytes
    \cup {o.msg_len}                                               \* memmove out, crc

----------------------------------------------------------------------------
(* Threads *)

Threads == {1, 2}

\* a thread outside any call: obj is the index in objs of the instance the
\* call is on, i and key are the locals of packetizer_encode / _decode, out
\* is what the call wrote to its output argument, ret what decode returned
ThrIdle == [obj |-> 0, op |-> "none", arg |-> <<>>, pc |-> "idle",
            i |-> 0, key |-> 0, out |-> <<>>, ret |-> FALSE]

----------------------------------------------------------------------------
(* The caller: one handle, used single-threaded *)

Messages(n) == SeqsOfLen(PayloadBytes, n)

NoChan == [pkt |-> <<>>, sent |-> <<>>, clean |-> FALSE]

\* a create call: its outcome becomes the caller's handle; a packet in flight
\* from an instance that no longer exists is dropped
DoCreate(r, opname, n, crc, fec0, fec1) ==
    /\ io'   = [op |-> opname, had |-> p, made |-> r.made,
                n |-> n, crc |-> crc, fec0 |-> fec0, fec1 |-> fec1]
    /\ p'    = r.p
    /\ pk'   = r.pk
    /\ heap' = r.heap
    /\ proc' = IF r.died THEN "terminated" ELSE "running"
    /\ chan' = IF r.made \/ r.died THEN NoChan ELSE chan
    /\ UNCHANGED <<len_vars, conc_vars>>

\* p = packetizer_create(n, crc, fec0, fec1), every allocation satisfied
Create ==
    /\ proc = "running"
    /\ p = NULL
    /\ \E n \in 0..MaxMsgLen, crc \in CallerCrcSchemes, fec0 \in CallerFecSchemes,
          fec1 \in CallerFecSchemes, junk \in JunkBytes :
          \E r \in {packetizer_create(heap, n, crc, fec0, fec1, {}, junk)} :
              DoCreate(r, "create", n, crc, fec0, fec1)

\* p = packetizer_recreate(p, n, crc, fec0, fec1), every allocation satisfied
Recreate ==
    /\ proc = "running"
    /\ \E n \in 0..MaxMsgLen, crc \in CallerCrcSchemes, fec0 \in CallerFecSchemes,
          fec1 \in CallerFecSchemes, junk \in JunkBytes :
          \E r \in {packetizer_recreate(heap, p, pk, n, crc, fec0, fec1, {}, junk)} :
              DoCreate(r, "recreate", n, crc, fec0, fec1)

\* packetizer_destroy(p); the caller drops the handle
Destroy ==
    /\ proc = "running"
    /\ p # NULL
    /\ heap' = packetizer_destroy(heap, p, pk)
    /\ p'    = NULL
    /\ pk'   = NoPk
    /\ io'   = [op |-> "destroy"]
    /\ chan' = NoChan
    /\ UNCHANGED <<proc, len_vars, conc_vars>>

\* packetizer_encode(p, msg, pkt) on a payload of msg_len bytes; the packet
\* goes on the channel
Encode ==
    /\ proc = "running"
    /\ p # NULL
    /\ \E msg \in Messages(pk.msg_len) :
          \E r \in {packetizer_encode(pk, heap, msg)} :
          /\ heap' = [heap EXCEPT ![pk.buffer_0].data = r.buffer_0,
                                  ![pk.buffer_1].data = r.buffer_1]
          /\ chan' = [pkt |-> r.pkt, sent |-> msg, clean |-> TRUE]
          /\ io'   = [op |-> "encode", msg |-> msg, pkt |-> r.pkt]
    /\ UNCHANGED <<p, pk, proc, len_vars, conc_vars>>

\* the channel corrupts one byte of a packet in flight (its first or its last)
Corrupt ==
    /\ proc = "running"
    /\ chan.clean
    /\ \E i \in {1, Len(chan.pkt)} \cap (1..Len(chan.pkt)) :
          chan' = [chan EXCEPT !.pkt[i] = 255 - @, !.clean = FALSE]
    /\ UNCHANGED <<p, pk, heap, io, proc, len_vars, conc_vars>>

\* packetizer_decode(p, pkt, msg) on the packet_len bytes on the channel
Decode ==
    /\ proc = "running"
    /\ p # NULL
    /\ Len(chan.pkt) = pk.packet_len
    /\ \E r \in {packetizer_decode(pk, heap, chan.pkt)} :
          /\ heap' = [heap EXCEPT ![pk.buffer_0].data = r.buffer_0,
                                  ![pk.buffer_1].data = r.buffer_1]
          /\ io'   = [op |-> "decode", pkt |-> chan.pkt, msg |-> r.msg,
                      valid |-> r.valid,
                      intact |-> chan.clean,
                      sent |-> chan.sent]
    /\ UNCHANGED <<p, pk, chan, proc, len_vars, conc_vars>>

\* the malloc calls of packetizer_create, and the ways at most one of them fails
Mallocs == {"p", "buffer_0", "buffer_1", "plan"}

NoMemCases == {{}} \cup {{m} : m \in Mallocs}

\* p = packetizer_create(n, crc, fec0, fec1) when memory may run out
CreateNoMem ==
    /\ proc = "running"
    /\ p = NULL
    /\ \E n \in 0..MaxMsgLen, crc \in CallerCrcSchemes, fec0 \in CallerFecSchemes,
          fec1 \in CallerFecSchemes, junk \in JunkBytes, nomem \in NoMemCases :
          \E r \in {packetizer_create(heap, n, crc, fec0, fec1, nomem, junk)} :
              DoCreate(r, "create", n, crc, fec0, fec1)

\* p = packetizer_recreate(p, n, crc, fec0, fec1) when memory may run out
RecreateNoMem ==
    /\ proc = "running"
    /\ \E n \in 0..MaxMsgLen, crc \in CallerCrcSchemes, fec0 \in CallerFecSchemes,
          fec1 \in CallerFecSchemes, junk \in JunkBytes, nomem \in NoMemCases :
          \E r \in {packetizer_recreate(heap, p, pk, n, crc, fec0, fec1, nomem, junk)} :
              DoCreate(r, "recreate", n, crc, fec0, fec1)

PktInit ==
    /\ p = NULL
    /\ pk = NoPk
    /\ heap = <<>>
    /\ chan = NoChan
    /\ io = [op |-> "none"]
    /\ proc = "running"

LenIdle ==
    /\ len_in = [k |-> 0, crc |-> "CRC_NONE", fec0 |-> "FEC_NONE", fec1 |-> "FEC_NONE"]
    /\ n_hat = 0
    /\ k_hat = 0
    /\ len_pc = "done"
    /\ len_ret = 0

\* no object is shared between threads and no thread is in a call
ConcIdle ==
    /\ objs = <<>>
    /\ thr = [t \in Threads |-> ThrIdle]

Init == PktInit /\ LenIdle /\ ConcIdle

Next == Create \/ Recreate \/ Destroy \/ Encode \/ Corrupt \/ Decode

Spec == Init /\ [][Next]_vars

----------------------------------------------------------------------------
(* The inverse length search, run on every target and scheme stack *)

LenInit ==
    /\ PktInit
    /\ ConcIdle
    /\ len_in \in LenArgs
    /\ n_hat = 0
    /\ k_hat = 0
    /\ len_pc = "while"
    /\ len_ret = 0

LenNext == DecLenLoop \/ DecLenExit

LenSpec == LenInit /\ [][LenNext]_vars

\* the search is straight-line sequential code: while a step is possible the
\* processor takes it
LenFairSpec == LenInit /\ [][LenNext]_vars /\ WF_vars(LenNext)

----------------------------------------------------------------------------
(* Construction and reconfiguration when an allocation may fail *)

NoMemNext == CreateNoMem \/ RecreateNoMem \/ Destroy

NoMemSpec == Init /\ [][NoMemNext]_vars

----------------------------------------------------------------------------
(* Two threads calling encode / decode on constructed instances, one
   statement of packetizer_encode / packetizer_decode at a time *)

Instances == 1..Len(objs)

\* the payloads the threads encode: n equal bytes
ConcMessages(n) == {[i \in 1..n |-> b] : b \in PayloadBytes}

\* the packets the threads decode: well-formed packets of instance k
ConcPackets(k) ==
    {packetizer_encode(objs[k], heap, m).pkt : m \in ConcMessages(objs[k].msg_len)}

\* Scratch0 for a library that keeps one scratch buffer for all instances
Scratch0_Static(k) == objs[1].buffer_0

\* _p->buffer_0 and _p->buffer_1 of instance k
Scratch0(k) == objs[k].buffer_0

Scratch1(k) == objs[k].buffer_1

\* the heap with block addr holding data
Store(h, addr, data) == [h EXCEPT ![addr].data = data]

\* thread t enters packetizer_encode(_p, _msg, _pkt) on an instance and copies
\* the message in: memmove(_p->buffer_0, _msg, _p->msg_len)
EncodeCopyIn(t) ==
    /\ thr[t].pc = "idle"
    /\ \E k \in Instances :
         \E msg \in ConcMessages(objs[k].msg_len) :
           /\ heap' = Store(heap, Scratch0(k),
                            MemWrite(heap[Scratch0(k)].data,
                                     Take(msg, objs[k].msg_len)))
           /\ thr'  = [thr EXCEPT ![t] = [ThrIdle EXCEPT !.obj = k, !.op = "encode",
                                                         !.arg = msg, !.pc = "crc"]]
    /\ UNCHANGED <<objs, p, pk, chan, io, proc, len_vars>>

\* key = crc_generate_key(...) on buffer_0 and the loop that appends it
EncodeCrc(t) ==
    /\ thr[t].op = "encode"
    /\ thr[t].pc = "crc"
    /\ LET k   == thr[t].obj
           o   == objs[k]
           key == crc_generate_key(o.check, Take(heap[Scratch0(k)].data, o.msg_len))
       IN  /\ heap' = Store(heap, Scratch0(k),
                            EncodeKeyLoop(0, o, key, heap[Scratch0(k)].data))
           /\ thr'  = [thr EXCEPT ![t].key = 0, ![t].i = 0, ![t].pc = "fec"]
    /\ UNCHANGED <<objs, p, pk, chan, io, proc, len_vars>>

\* fec_encode(plan[i].f, plan[i].dec_msg_len, buffer_0, buffer_1)
EncodeFec(t) ==
    /\ thr[t].op = "encode"
    /\ thr[t].pc = "fec"
    /\ LET k  == thr[t].obj
           st == objs[k].stages[thr[t].i + 1]
       IN  heap' = Store(heap, Scratch1(k),
                         fec_encode(heap[st.f], st.dec_msg_len,
                                    heap[Scratch0(k)].data, heap[Scratch1(k)].data))
    /\ thr' = [thr EXCEPT ![t].pc = "intlv"]
    /\ UNCHANGED <<objs, p, pk, chan, io, proc, len_vars>>

\* interleaver_encode(plan[i].q, buffer_1, buffer_0); i++
EncodeInterleave(t) ==
    /\ thr[t].op = "encode"
    /\ thr[t].pc = "intlv"
    /\ LET k  == thr[t].obj
           st == objs[k].stages[thr[t].i + 1]
       IN  /\ heap' = Store(heap, Scratch0(k),
                            interleaver_encode(heap[st.q], heap[Scratch1(k)].data,
                                               heap[Scratch0(k)].data))
           /\ thr'  = [thr EXCEPT ![t].i = @ + 1,
                                  ![t].pc = IF thr[t].i + 1 < objs[k].plan_len
                                              THEN "fec" ELSE "out"]
    /\ UNCHANGED <<objs, p, pk, chan, io, proc, len_vars>>

\* memmove(_pkt, _p->buffer_0, _p->packet_len); return
EncodeCopyOut(t) ==
    /\ thr[t].op = "encode"
    /\ thr[t].pc = "out"
    /\ LET k == thr[t].obj
       IN  thr' = [thr EXCEPT ![t].out = Take(heap[Scratch0(k)].data,
                                              objs[k].packet_len),
                              ![t].pc = "done"]
    /\ UNCHANGED <<heap, objs, p, pk, chan, io, proc, len_vars>>

\* thread t enters packetizer_decode(_p, _pkt, _msg) on an instance and
\* copies the packet in: memmove(_p->buffer_0, _pkt, _p->packet_len)
DecodeCopyIn(t) ==
    /\ thr[t].pc = "idle"
    /\ \E k \in Instances :
         \E pkt \in ConcPackets(k) :
           /\ heap' = Store(heap, Scratch0(k),
                            MemWrite(heap[Scratch0(k)].data,
                                     Take(pkt, objs[k].packet_len)))
           /\ thr'  = [thr EXCEPT ![t] = [ThrIdle EXCEPT !.obj = k, !.op = "decode",
                                                         !.arg = pkt,
                                                         !.i = objs[k].plan_len,
                                                         !.pc = "intlv"]]
    /\ UNCHANGED <<objs, p, pk, chan, io, proc, len_vars>>

\* interleaver_decode(plan[i-1].q, buffer_0, buffer_1)
DecodeInterleave(t) ==
    /\ thr[t].op = "decode"
    /\ thr[t].pc = "intlv"
    /\ LET k  == thr[t].obj
           st == objs[k].stages[thr[t].i]
       IN  heap' = Store(heap, Scratch1(k),
                         interleaver_decode(heap[st.q], heap[Scratch0(k)].data,
                                            heap[Scratch1(k)].data))
    /\ thr' = [thr EXCEPT ![t].pc = "fec"]
    /\ UNCHANGED <<objs, p, pk, chan, io, proc, len_vars>>

\* fec_decode(plan[i-1].f, plan[i-1].dec_msg_len, buffer_1, buffer_0); i--
DecodeFec(t) ==
    /\ thr[t].op = "decode"
    /\ thr[t].pc = "fec"
    /\ LET k  == thr[t].obj
           st == objs[k].stages[thr[t].i]
       IN  heap' = Store(heap, Scratch0(k),
                         fec_decode(heap[st.f], st.dec_msg_len,
                                    heap[Scratch1(k)].data, heap[Scratch0(k)].data))
    /\ thr' = [thr EXCEPT ![t].i = @ - 1,
                          ![t].pc = IF thr[t].i - 1 > 0 THEN "intlv" ELSE "crc"]
    /\ UNCHANGED <<objs, p, pk, chan, io, proc, len_vars>>

\* the loop that strips the key from buffer_0
DecodeKey(t) ==
    /\ thr[t].op = "decode"
    /\ thr[t].pc = "crc"
    /\ LET k == thr[t].obj
       IN  thr' = [thr EXCEPT ![t].key = DecodeKeyLoop(0, objs[k], 0,
                                                       heap[Scratch0(k)].data),
                              ![t].pc = "out"]
    /\ UNCHANGED <<heap, objs, p, pk, chan, io, proc, len_vars>>

\* memmove(_msg, _p->buffer_0, _p->msg_len)
DecodeCopyOut(t) ==
    /\ thr[t].op = "decode"
    /\ thr[t].pc = "out"
    /\ LET k == thr[t].obj
       IN  thr' = [thr EXCEPT ![t].out = Take(heap[Scratch0(k)].data, objs[k].msg_len),
                              ![t].pc = "validate"]
    /\ UNCHANGED <<heap, objs, p, pk, chan, io, proc, len_vars>>

\* return crc_validate_message(_p->check, _p->buffer_0, _p->msg_len, key)
DecodeValidate(t) ==
    /\ thr[t].op = "decode"
    /\ thr[t].pc = "validate"
    /\ LET k == thr[t].obj
           o == objs[k]
       IN  thr' = [thr EXCEPT ![t].ret = crc_validate_message(o.check,
                                            Take(heap[Scratch0(k)].data, o.msg_len),
                                            thr[t].key),
                              ![t].pc = "done"]
    /\ UNCHANGED <<heap, objs, p, pk, chan, io, proc, len_vars>>

\* two instances built with the same arguments for messages of the greatest
\* length, no call running
ConcInit ==
    /\ p = NULL
    /\ pk = NoPk
    /\ chan = NoChan
    /\ io = [op |-> "none"]
    /\ proc = "running"
    /\ LenIdle
    /\ thr = [t \in Threads |-> ThrIdle]
    /\ \E n \in {MaxMsgLen}, crc \in CallerCrcSchemes, fec0 \in CallerFecSchemes,
          fec1 \in CallerFecSchemes, junk \in JunkBytes :
          \E r1 \in {packetizer_create(<<>>, n, crc, fec0, fec1, {}, junk)} :
             \E r2 \in {packetizer_create(r1.heap, n, crc, fec0, fec1, {}, junk)} :
                /\ heap = r2.heap
                /\ objs = <<r1.pk, r2.pk>>

ConcNext ==
    \E t \in Threads :
        \/ EncodeCopyIn(t)
        \/ EncodeCrc(t)
        \/ EncodeFec(t)
        \/ EncodeInterleave(t)
        \/ EncodeCopyOut(t)
        \/ DecodeCopyIn(t)
        \/ DecodeInterleave(t)
        \/ DecodeFec(t)
        \/ DecodeKey(t)
        \/ DecodeCopyOut(t)
        \/ DecodeValidate(t)

ConcSpec == ConcInit /\ [][ConcNext]_vars

----------------------------------------------------------------------------
(* Properties of the length calculator (checked under LenSpec) *)

\* the scheme stack of the running search has a strictly increasing forward length
StrictlyIncreasing == \A a \in 0..len_in.k : EncLen(a) < EncLen(a + 1)

\* C5: for every target k that is at least the encoded length of the
\* zero-length message, the search returns the largest uncoded length whose
\* forward encoded length does not exceed k.
C5_LargestFitting ==
    (len_pc = "done" /\ len_in.k >= EncLen(0)) =>
        /\ EncLen(len_ret) <= len_in.k
        /\ \A n \in 0..len_in.k : EncLen(n) <= len_in.k => n <= len_ret

\* C6: on a target that is the forward length of some n, the search returns
\* the smallest uncoded length with that forward length; this is n itself
\* when the forward length is strictly increasing.
C6_InverseOnExactTargets ==
    len_pc = "done" =>
        \A n \in 0..len_in.k :
            EncLen(n) = len_in.k =>
                /\ EncLen(len_ret) = len_in.k
                /\ len_ret <= n
                /\ StrictlyIncreasing => len_ret = n

C6_Witness ==
    /\ len_pc = "done"
    /\ len_in = [k |-> 24, crc |-> "CRC_16", fec0 |-> "FEC_REP2", fec1 |-> "FEC_TAIL4"]
    /\ StrictlyIncreasing
    /\ len_ret = 8

\* C7: for a target no uncoded length can fit in (k = 0, or k below the
\* encoded length of the zero-length message) the search returns 0.
C7_ZeroForUnreachable ==
    (len_pc = "done" /\ (len_in.k = 0 \/ len_in.k < EncLen(0))) => len_ret = 0

C7_Witness ==
    /\ len_pc = "done"
    /\ len_in.k > 0
    /\ len_in.k < EncLen(0)
    /\ k_hat = EncLen(0)
    /\ len_ret = 0

----------------------------------------------------------------------------
(* Properties of the packetizer object (checked under Spec) *)

\* the len low-order bytes of key, most significant first
RECURSIVE BigEndian(_, _)
BigEndian(key, len) ==
    IF len = 0 THEN <<>> ELSE Append(BigEndian(key \div 256, len - 1), key % 256)

\* the integer a byte string spells, most significant byte first
RECURSIVE BigEndianValue(_)
BigEndianValue(bytes) ==
    IF bytes = <<>> THEN 0
    ELSE 256 * BigEndianValue(SubSeq(bytes, 1, Len(bytes) - 1)) + bytes[Len(bytes)]

\* the packet the pipeline of object o makes of payload msg
PipelineEncode(o, msg) ==
    LET framed == msg \o BigEndian(crc_generate_key(o.check, msg), o.crc_length)
        s0     == Permute(FecEncodeWord(o.stages[1].fs, framed))
    IN  Permute(FecEncodeWord(o.stages[2].fs, s0))

\* what unwinding the pipeline of object o leaves of packet pkt
PipelineUnwind(o, pkt) ==
    LET s1 == FecDecodeWord(o.stages[2].fs, o.stages[2].dec_msg_len, Unpermute(pkt))
    IN  FecDecodeWord(o.stages[1].fs, o.stages[1].dec_msg_len, Unpermute(s1))

\* C1: decode of the unmodified output of encode on the same instance returns
\* exactly the original payload and a true validity flag.
C1_RoundTrip ==
    (io.op = "decode" /\ io.intact) => (io.msg = io.sent /\ io.valid = TRUE)

C1_Witness ==
    /\ io.op = "decode"
    /\ io.intact
    /\ Len(io.sent) = 2
    /\ io.sent[1] # io.sent[2]
    /\ pk.check = "CRC_16"
    /\ pk.stages[1].fs = "FEC_BLOCK23"
    /\ pk.stages[2].fs = "FEC_REP2"
    /\ io.msg = io.sent

\* C2: every constructed packetizer has a two-stage plan whose lengths chain
\* from msg_len + crc_length through both forward FEC lengths to packet_len,
\* which equals packetizer_compute_enc_msg_len of its configuration; the
\* configuration is the one the last create / recreate call asked for.
C2_PlanLengths ==
    p # NULL =>
        /\ pk.plan_len = 2
        /\ Len(pk.stages) = 2
        /\ pk.crc_length = crc_get_length(pk.check)
        /\ pk.stages[1].dec_msg_len = pk.msg_len + pk.crc_length
        /\ \A i \in 1..2 :
              pk.stages[i].enc_msg_len =
                  fec_get_enc_msg_length(pk.stages[i].fs, pk.stages[i].dec_msg_len)
        /\ pk.stages[2].dec_msg_len = pk.stages[1].enc_msg_len
        /\ pk.packet_len = pk.stages[2].enc_msg_len
        /\ pk.packet_len = packetizer_compute_enc_msg_len(
                               pk.msg_len, pk.check, pk.stages[1].fs, pk.stages[2].fs)
        /\ io.op \in {"create", "recreate"} =>
              /\ pk.msg_len = io.n
              /\ pk.check = io.crc
              /\ pk.stages[1].fs = io.fec0
              /\ pk.stages[2].fs = io.fec1

C2_Witness ==
    /\ p # NULL
    /\ io.op = "recreate"
    /\ io.had # NULL
    /\ io.made
    /\ pk.msg_len = 0
    /\ pk.check = "CRC_16"
    /\ pk.stages[1].fs = "FEC_REP2"
    /\ pk.stages[2].fs = "FEC_BLOCK23"
    /\ pk.packet_len = 6

\* C3: encode writes exactly packet_len bytes, and they are the payload with
\* the big-endian key appended, passed through stage 0 then stage 1, FEC
\* encoder before interleaver in each; nothing else enters the result.
C3_EncodeOutput ==
    io.op = "encode" =>
        /\ Len(io.pkt) = pk.packet_len
        /\ io.pkt = PipelineEncode(pk, io.msg)

C3_Witness ==
    /\ io.op = "encode"
    /\ Len(io.msg) = 2
    /\ io.msg[1] # io.msg[2]
    /\ pk.check = "CRC_16"
    /\ pk.stages[1].fs = "FEC_REP2"
    /\ pk.stages[2].fs = "FEC_BLOCK23"
    /\ Len(io.pkt) = 12

\* C4: decode unwinds stage 1 then stage 0 (de-interleaver before FEC decoder),
\* always copies the first msg_len bytes of the result to the output, and
\* returns exactly the CRC validation of those bytes against the key spelled
\* big-endian by the crc_length bytes that follow them.
C4_DecodeOutput ==
    io.op = "decode" =>
        LET u == PipelineUnwind(pk, io.pkt) IN
        /\ Len(io.msg) = pk.msg_len
        /\ io.msg = SubSeq(u, 1, pk.msg_len)
        /\ io.valid = crc_validate_message(pk.check, SubSeq(u, 1, pk.msg_len),
                          BigEndianValue(SubSeq(u, pk.msg_len + 1,
                                                pk.msg_len + pk.crc_length)))

C4_Witness ==
    /\ io.op = "decode"
    /\ ~io.intact
    /\ io.valid = FALSE
    /\ pk.msg_len = 2
    /\ pk.check = "CRC_16"
    /\ io.msg # io.sent
    /\ io.msg # <<0, 0>>

----------------------------------------------------------------------------
(* Lifetime of the owned objects *)

\* the allocations object o at address ptr owns (NULL where one is missing)
Owned(ptr, o) ==
    {ptr, o.plan, o.buffer_0, o.buffer_1}
        \cup {o.stages[i].f : i \in 1..Len(o.stages)}
        \cup {o.stages[i].q : i \in 1..Len(o.stages)}

\* the allocations of heap h that have not been released
Live(h) == {a \in 1..Len(h) : h[a].frees = 0}

\* the step is a recreate call whose arguments equal the object's configuration
RecreateSameStep ==
    /\ io' # io
    /\ io'.op = "recreate"
    /\ p # NULL
    /\ io'.n = pk.msg_len
    /\ io'.crc = pk.check
    /\ io'.fec0 = pk.stages[1].fs
    /\ io'.fec1 = pk.stages[2].fs

\* the step is a recreate call on an object with some argument different
RecreateChangedStep ==
    /\ io' # io
    /\ io'.op = "recreate"
    /\ io'.had = p
    /\ p # NULL
    /\ \/ io'.n # pk.msg_len
       \/ io'.crc # pk.check
       \/ io'.fec0 # pk.stages[1].fs
       \/ io'.fec1 # pk.stages[2].fs

\* the step is a recreate call on a NULL handle
RecreateNullStep ==
    /\ io'.op = "recreate"
    /\ io'.had = NULL
    /\ p = NULL

\* heap h with every allocation in the set A released
RECURSIVE Released(_, _)
Released(h, A) ==
    IF A = {} THEN h
    ELSE LET a == CHOOSE x \in A : TRUE
         IN  Released([h EXCEPT ![a] = [kind |-> @.kind, frees |-> @.frees + 1,
                                       scheme |-> "", len |-> 0, data |-> <<>>]],
                      A \ {a})

\* o is a complete object at ptr in h, configured with (n, crc, fec0, fec1)
FreshObject(h, ptr, o, n, crc, fec0, fec1) ==
    /\ ptr # NULL
    /\ NULL \notin Owned(ptr, o)
    /\ Cardinality(Owned(ptr, o)) = 8
    /\ Owned(ptr, o) \subseteq Live(h)
    /\ h[ptr].kind = "packetizer"
    /\ h[o.plan].kind = "plan"
    /\ h[o.buffer_0].kind = "buffer" /\ h[o.buffer_1].kind = "buffer"
    /\ Len(h[o.buffer_0].data) = o.packet_len
    /\ Len(h[o.buffer_1].data) = o.packet_len
    /\ \A i \in 1..2 :
          /\ h[o.stages[i].f].kind = "fec"
          /\ h[o.stages[i].f].scheme = o.stages[i].fs
          /\ h[o.stages[i].q].kind = "interleaver"
          /\ h[o.stages[i].q].len = o.stages[i].enc_msg_len
    /\ o.msg_len = n
    /\ o.check = crc
    /\ o.stages[1].fs = fec0
    /\ o.stages[2].fs = fec1

\* C8: recreate with the object's own configuration returns the same handle,
\* creates and destroys nothing, leaves every field and both scratch buffers
\* as they were, and encode / decode answer as before the call.
C8_IdempotentRecreate ==
    [][ RecreateSameStep =>
          /\ p' = p
          /\ pk' = pk
          /\ heap' = heap
          /\ \A msg \in Messages(pk.msg_len) :
                \E e \in {packetizer_encode(pk, heap, msg)} :
                   /\ packetizer_encode(pk', heap', msg) = e
                   /\ packetizer_decode(pk', heap', e.pkt) = packetizer_decode(pk, heap, e.pkt)
      ]_vars

C8_Witness ==
    /\ io.op = "recreate"
    /\ io.had # NULL
    /\ io.had = p
    /\ ~io.made
    /\ pk.msg_len = 2
    /\ pk.stages[1].fs # pk.stages[2].fs
    /\ chan.clean
    /\ heap[pk.buffer_0].data = chan.pkt

\* C9: at every moment the unreleased allocations are exactly the eight the
\* current object owns (none when there is no object) and nothing was released
\* twice; a recreate with a changed argument releases all eight of the old
\* object, then builds a complete object configured as asked on the heap so
\* left; a recreate on a NULL handle does what create does.
C9_Lifetime ==
    [][ /\ \A a \in 1..Len(heap') : heap'[a].frees <= 1
        /\ Live(heap') = (IF p' = NULL THEN {} ELSE Owned(p', pk'))
        /\ p' # NULL => Cardinality(Owned(p', pk')) = 8
        /\ RecreateChangedStep =>
              /\ io'.made
              /\ FreshObject(heap', p', pk', io'.n, io'.crc, io'.fec0, io'.fec1)
              /\ \E junk \in JunkBytes :
                    heap' = packetizer_create(Released(heap, Owned(p, pk)),
                                io'.n, io'.crc, io'.fec0, io'.fec1, {}, junk).heap
        /\ RecreateNullStep =>
              \E junk \in JunkBytes :
                 LET r == packetizer_create(heap, io'.n, io'.crc, io'.fec0, io'.fec1,
                                            {}, junk)
                 IN  p' = r.p /\ pk' = r.pk /\ heap' = r.heap
      ]_vars

C9_Witness ==
    /\ io.op = "recreate"
    /\ io.had # NULL
    /\ io.made
    /\ p # NULL
    /\ pk.msg_len = 2
    /\ Cardinality(Live(heap)) = 8

\* C10: every handle create or recreate returns has its plan, both scratch
\* buffers and both stages' codec and interleaver present; an allocation that
\* cannot be satisfied ends the process instead.
\* (a scratch buffer of zero bytes counts as present whatever malloc(0) gave)
C10_NoPartialObject ==
    (proc = "running" /\ p # NULL) =>
        /\ pk.plan # NULL
        /\ pk.buffer_len > 0 => (pk.buffer_0 # NULL /\ pk.buffer_1 # NULL)
        /\ Len(pk.stages) = 2
        /\ \A i \in 1..Len(pk.stages) : pk.stages[i].f # NULL /\ pk.stages[i].q # NULL
        /\ (Owned(p, pk) \ {NULL}) \subseteq Live(heap)

----------------------------------------------------------------------------
(* Termination of the inverse length search (checked under LenFairSpec) *)

\* C13: for every target and every scheme stack (all of them non-decreasing
\* and unbounded) the search returns after finitely many passes; the
\* candidate starts at 0, grows by exactly 1 per pass that does not return,
\* and never exceeds the value returned.
C13_SearchTerminates ==
    /\ n_hat = 0
    /\ <>(len_pc = "done")
    /\ [][ /\ n_hat' \in {n_hat, n_hat + 1}
           /\ len_pc' = "while" => n_hat' = n_hat + 1
           /\ len_pc = "done" => (len_pc' = "done" /\ len_ret' = len_ret)
           /\ len_pc' = "done" => n_hat' <= len_ret' ]_vars

C13_Witness ==
    /\ len_pc = "done"
    /\ n_hat = 5
    /\ len_ret = 5
    /\ k_hat > len_in.k
    /\ len_in.fec0 = "FEC_BLOCK23"

----------------------------------------------------------------------------
(* Scratch-buffer bounds (checked under Spec; every modelled FEC length
   formula returns at least its input) *)

\* C12: in every constructed packetizer buffer_len = packet_len, both scratch
\* buffers are allocated with buffer_len bytes, every extent that encode and
\* decode read or write in them is at most buffer_len, and
\* msg_len + crc_length <= stage 0 enc_msg_len <= stage 1 enc_msg_len
\* = buffer_len.
C12_ScratchBounds ==
    p # NULL =>
        /\ pk.buffer_len = pk.packet_len
        /\ Len(heap[pk.buffer_0].data) = pk.buffer_len
        /\ Len(heap[pk.buffer_1].data) = pk.buffer_len
        /\ \A e \in EncodeExtents(pk, heap) \cup DecodeExtents(pk, heap) :
              e <= pk.buffer_len
        /\ pk.msg_len + pk.crc_length <= pk.stages[1].enc_msg_len
        /\ pk.stages[1].enc_msg_len <= pk.stages[2].enc_msg_len
        /\ pk.stages[2].enc_msg_len = pk.buffer_len

C12_Witness ==
    /\ p # NULL
    /\ io.op = "decode"
    /\ io.valid
    /\ pk.msg_len = MaxMsgLen
    /\ pk.msg_len + pk.crc_length < pk.stages[1].enc_msg_len
    /\ pk.stages[1].enc_msg_len < pk.stages[2].enc_msg_len
    /\ pk.buffer_len \in EncodeExtents(pk, heap) \cap DecodeExtents(pk, heap)

----------------------------------------------------------------------------
(* Concurrent use (checked under ConcSpec) *)

\* what the call thread t is in returns when it runs alone on its instance
SerialResult(t) ==
    LET o == objs[thr[t].obj]
    IN  IF thr[t].op = "encode"
          THEN [out |-> packetizer_encode(o, heap, thr[t].arg).pkt, ret |-> FALSE]
          ELSE LET d == packetizer_decode(o, heap, thr[t].arg)
               IN  [out |-> d.msg, ret |-> d.valid]

\* the finished call of thread t returned something else than it does alone
Differs(t) ==
    /\ thr[t].pc = "done"
    /\ [out |-> thr[t].out, ret |-> thr[t].ret] # SerialResult(t)

\* the blocks that instance k's fields point to
Touched(k) ==
    {objs[k].buffer_0, objs[k].buffer_1, objs[k].plan}
        \cup {objs[k].stages[i].f : i \in 1..objs[k].plan_len}
        \cup {objs[k].stages[i].q : i \in 1..objs[k].plan_len}

\* C11: two distinct instances share no memory, and calls on two distinct
\* instances return their serial results under every interleaving of their
\* statements, while two interleaved calls on one instance can return
\* something else (C11_Witness), because both write that instance's scratch
\* buffers.
C11_DistinctInstancesSerial ==
    /\ \A j \in Instances : \A k \in Instances \ {j} : Touched(j) \cap Touched(k) = {}
    /\ \A t \in Threads :
          \A u \in Threads \ {t} :
              thr[t].obj # thr[u].obj => ~Differs(t)

C11_Witness ==
    /\ thr[1].obj = thr[2].obj
    /\ thr[1].pc = "done"
    /\ thr[2].pc = "done"
    /\ \E t \in Threads : Differs(t)

============================================================================
